---- MODULE Spec2Model ----
(***************************************************************************)
(* A model of goose's turn orchestrator (src/src/goose/cli/session.py),    *)
(* of the realtime provider's protocol client                              *)
(* (src/packages/exchange/src/exchange/providers/openai_realtime.py) and   *)
(* of the developer toolkit (src/src/goose/synopsis/toolkit.py).           *)
(*                                                                         *)
(* Spec   : Session.run / Session.single_pass / Session.reply /            *)
(*          Session.interrupt_reply, one action per statement boundary at  *)
(*          which a KeyboardInterrupt or an exception changes the outcome. *)
(***************************************************************************)
EXTENDS Integers, Sequences, FiniteSets, TLC

(***************************************************************************)
(* Bounds of the model.                                                    *)
(***************************************************************************)
\* user messages submitted in one session
MaxTurns == 2
\* calls of exchange.generate() in one session
MaxGenerations == 2
\* tool requests in one assistant reply
MaxToolUses == 2

VARIABLES
    \* ---- Session ----
    messages,     \* self.exchange.messages
    committed,    \* reply()'s local list `committed`
    response,     \* reply()'s local `response`
    content,      \* reply()'s local `content` (tool results collected so far)
    message,      \* run()'s local `message` (the pending user message, or none)
    pc,           \* position in run / single_pass / reply
    ret,          \* where reply() returns to
    mode,         \* "run" or "single_pass"
    has_plan,     \* self.has_plan
    log,          \* what log_messages has been handed, one entry per call
    \* ---- bookkeeping of the run (history variables) ----
    before,       \* exchange.messages before the turn's message was added
    outcome,      \* how the current reply() call ended
    intAt,        \* pc at which the KeyboardInterrupt was delivered
    intMessages,  \* exchange.messages when interrupt_reply was entered
    intCommitted, \* committed when interrupt_reply was entered
    logged,       \* calls of log_messages in the current reply() call
    nextId,       \* next fresh tool_use id handed out by the provider
    turns,        \* user messages submitted so far
    gens,         \* generate() calls so far
    \* ---- RealtimeWebSocket ----
    ws,                   \* self.ws: "None", or a socket "connected" / "closed"
    sock_timeout,         \* the socket's receive timeout: "unset" or "set"
    is_first_connection,  \* self.is_first_connection
    tool_call_count,      \* self.tool_call_count
    current_tool_result,  \* self.current_tool_result
    current_tool_id,      \* self.current_tool_id
    \* ---- send_message in progress ----
    rpc,                  \* "idle", or "recv": in the receive loop
    via,                  \* the caller: "send_message" (direct) or "complete"
    content_text,         \* local content_text
    tool_calls,           \* local tool_calls
    current_tool_call,    \* local current_tool_call
    sent,                 \* what this request has sent to the remote, in order
    heard,                \* what this request has received so far
    requests,             \* calls of send_message so far
    result,               \* how the last request ended, and what it returned
    \* ---- SynopsisDeveloper (toolkit.py) and the files it works on ----
    cwd,                  \* system.cwd
    files,                \* the content of each file, or "absent"
    active,               \* the files system.remember_file has recorded
    file_history,         \* self._file_history
    tk_result             \* how the last tool call ended

svars == <<messages, committed, response, content, message, pc, ret, mode,
           has_plan, log, before, outcome, intAt, intMessages, intCommitted,
           logged, nextId, turns, gens>>

rvars == <<ws, sock_timeout, is_first_connection, tool_call_count, current_tool_result,
           current_tool_id, rpc, via, content_text, tool_calls, current_tool_call,
           sent, heard, requests, result>>

tvars == <<cwd, files, active, file_history, tk_result>>

vars == <<svars, rvars, tvars>>

(***************************************************************************)
(* Messages and content (exchange.Message, Text, ToolUse, ToolResult).     *)
(***************************************************************************)
Text(t) == [type |-> "Text", id |-> 0, text |-> t, is_error |-> FALSE]

ToolUse(i, name) == [type |-> "ToolUse", id |-> i, text |-> name, is_error |-> FALSE]

ToolResult(i, output, err) == [type |-> "ToolResult", id |-> i, text |-> output, is_error |-> err]

Message(role, cont) == [role |-> role, content |-> cont]

MessageUser(t) == Message("user", <<Text(t)>>)

MessageAssistant(t) == Message("assistant", <<Text(t)>>)

NoMessage == Message("none", <<>>)

Last(s) == s[Len(s)]

Front(s) == SubSeq(s, 1, Len(s) - 1)

IsToolUse(c) == c.type = "ToolUse"

\* Message.tool_use: the ToolUse items of a message, in order
tool_use(m) == SelectSeq(m.content, IsToolUse)

RESUME_MESSAGE == "I see we were interrupted. How can I help you?"

(***************************************************************************)
(* The exchange (packages/exchange: Exchange.add, generate, call_function, *)
(* rewind).  Its source is not part of src/; it is modelled from its       *)
(* contract: the conversation is an append-only sequence, generate()       *)
(* appends the provider's reply and returns it, call_function answers a    *)
(* ToolUse with a ToolResult carrying its id, rewind() removes everything  *)
(* from the most recent user text message on.                              *)
(***************************************************************************)
ExchangeAdd(ms, m) == Append(ms, m)

\* the replies a provider can produce: optional text, then 0..MaxToolUses
\* tool requests with fresh ids
ProviderReplies(first) ==
    { Message("assistant",
              txt \o [j \in 1..k |-> ToolUse(first + j - 1, "shell")]) :
        txt \in {<<>>, <<Text("reply")>>}, k \in 0..MaxToolUses }

\* the result's payload (output, is_error) is opaque to the orchestrator,
\* which never reads it: one representative result per request
CallFunction(tu) == ToolResult(tu.id, "output", FALSE)

IsUserText(m) == m.role = "user" /\ m.content # <<>> /\ Last(m.content).type = "Text"

RECURSIVE Rewind(_)
Rewind(ms) ==
    IF ms = <<>> THEN <<>>
    ELSE IF IsUserText(Last(ms)) THEN Front(ms)
    ELSE Rewind(Front(ms))

(***************************************************************************)
(* Session.interrupt_reply (session.py 248-281) as a function of the       *)
(* conversation and of `committed`.                                        *)
(***************************************************************************)
INTERRUPTED_OUTPUT == "Interrupted by the user to make a correction"

\* session.py 263-273: one error ToolResult per tool request, in order
SyntheticResults(m) ==
    LET tus == tool_use(m)
    IN  Message("user", [j \in 1..Len(tus) |-> ToolResult(tus[j].id, INTERRUPTED_OUTPUT, TRUE)])

\* session.py 276-277
Acknowledgement(m) ==
    MessageAssistant("We interrupted the existing call to shell. How would you like to proceed?")

\* session.py 252-256
InterruptPop(st) ==
    IF st.messages # <<>> /\ Last(st.messages).role = "user"
    THEN [messages |-> Front(st.messages), committed |-> Front(st.committed)]
    ELSE st

\* session.py 258-279
InterruptToolUse(st) ==
    IF /\ st.messages # <<>>
       /\ Last(st.messages).role = "assistant"
       /\ tool_use(Last(st.messages)) # <<>>
    THEN LET last == Last(st.messages)
         IN  [messages  |-> ExchangeAdd(ExchangeAdd(st.messages, SyntheticResults(last)),
                                        Acknowledgement(last)),
              committed |-> st.committed \o <<SyntheticResults(last), Acknowledgement(last)>>]
    ELSE st

\* plausible slips in interrupt_reply
\* the acknowledgement without the synthetic results
InterruptReplyWithoutResults(ms, cm) ==
    LET st == InterruptPop([messages |-> ms, committed |-> cm])
    IN  IF st.messages # <<>> /\ Last(st.messages).role = "assistant"
           /\ tool_use(Last(st.messages)) # <<>>
        THEN [messages  |-> ExchangeAdd(st.messages, Acknowledgement(Last(st.messages))),
              committed |-> Append(st.committed, Acknowledgement(Last(st.messages)))]
        ELSE st

\* a synthetic result for the last request only
InterruptReplyLastRequestOnly(ms, cm) ==
    LET st == InterruptPop([messages |-> ms, committed |-> cm])
    IN  IF st.messages # <<>> /\ Last(st.messages).role = "assistant"
           /\ tool_use(Last(st.messages)) # <<>>
        THEN LET last == Last(st.messages)
                 res  == Message("user", <<Last(SyntheticResults(last).content)>>)
             IN  [messages  |-> st.messages \o <<res, Acknowledgement(last)>>,
                  committed |-> st.committed \o <<res, Acknowledgement(last)>>]
        ELSE st

\* the user message removed from the conversation but kept in committed
InterruptReplyKeepingCommitted(ms, cm) ==
    InterruptToolUse(
        IF ms # <<>> /\ Last(ms).role = "user"
        THEN [messages |-> Front(ms), committed |-> cm]
        ELSE [messages |-> ms, committed |-> cm])

\* the acknowledgement appended in every branch
InterruptReplyAlwaysAcknowledging(ms, cm) ==
    LET st == InterruptToolUse(InterruptPop([messages |-> ms, committed |-> cm]))
    IN  IF st = InterruptPop([messages |-> ms, committed |-> cm])
        THEN [messages  |-> Append(st.messages, MessageAssistant("We interrupted before the next processing started.")),
              committed |-> Append(st.committed, MessageAssistant("We interrupted before the next processing started."))]
        ELSE st

InterruptReply(ms, cm) ==
    InterruptToolUse(InterruptPop([messages |-> ms, committed |-> cm]))

(***************************************************************************)
(* Initial state: the session after Session.__init__ (61-96).  The         *)
(* conversation is empty, or the plan's kickoff message (setup_plan,       *)
(* 122-131), or a resumed conversation that ends with a settled turn.      *)
(***************************************************************************)
ResumedConversation == <<MessageUser("earlier"), MessageAssistant("earlier reply")>>

SessionInit ==
    /\ mode \in {"run", "single_pass"}
    /\ has_plan \in BOOLEAN
    /\ \/ messages = <<>> /\ has_plan = FALSE
       \/ messages = <<MessageUser("kickoff")>> /\ has_plan = TRUE
       \/ messages = ResumedConversation
    /\ committed = <<>>
    /\ response = NoMessage
    /\ content = <<>>
    /\ message = NoMessage
    /\ pc = "start"
    /\ ret = "none"
    /\ log = <<>>
    /\ before = messages
    /\ outcome = "none"
    /\ intAt = "none"
    /\ intMessages = <<>>
    /\ intCommitted = <<>>
    /\ logged = 0
    /\ nextId = 1
    /\ turns = 0
    /\ gens = 0

locals == <<committed, response, content>>
config == <<mode, has_plan>>
intr == <<intAt, intMessages, intCommitted>>
history == <<before, outcome, intr, logged, nextId, turns, gens>>

(***************************************************************************)
(* Session._get_initial_messages (102-120) as a function of the loaded     *)
(* session log: the messages it returns, or the IndexError of              *)
(* content[-1] on a message without content.                               *)
(***************************************************************************)
\* type(m.content[-1])
LastContentType(m) == IF m.content = <<>> THEN "IndexError" ELSE Last(m.content).type

\* 105-113: a trailing user message
AfterTrailingUser(loaded) ==
    IF loaded # <<>> /\ Last(loaded).role = "user"
    THEN IF LastContentType(Last(loaded)) = "Text" THEN Front(loaded)
         ELSE IF LastContentType(Last(loaded)) = "ToolResult"
              THEN Append(loaded, MessageAssistant(RESUME_MESSAGE))
         ELSE loaded
    ELSE loaded

\* 102-120
GetInitialMessages(loaded) ==
    LET ms == AfterTrailingUser(loaded)
    IN  [raised   |-> \/ loaded # <<>> /\ Last(loaded).role = "user" /\ Last(loaded).content = <<>>
                      \/ ms # <<>> /\ Last(ms).content = <<>>,
         messages |-> IF ms # <<>> /\ LastContentType(Last(ms)) = "ToolUse"
                      THEN Append(Front(ms), MessageAssistant(RESUME_MESSAGE))
                      ELSE ms]

(***************************************************************************)
(* Session.run (170-208)                                                   *)
(***************************************************************************)
\* prompt_session.get_user_input(): a message, or nothing (exit)
UserInputs == IF turns < MaxTurns THEN {MessageUser("hi"), NoMessage} ELSE {NoMessage}

\* 133-140 process_first_message, called at 185
ProcessFirstMessage ==
    /\ pc = "start" /\ mode = "run"
    /\ IF Len(messages) = 0 \/ Last(messages).role = "assistant"
       THEN /\ message' \in UserInputs
            /\ UNCHANGED messages
       ELSE /\ message' = Last(messages)
            /\ messages' = Front(messages)
    /\ pc' = "while"
    /\ UNCHANGED <<locals, ret, config, log, history, rvars, tvars>>

\* 186-190: the loop takes a message, exchange.add(message), self.reply()
RunSubmit ==
    /\ pc = "while" /\ message # NoMessage
    /\ before' = messages
    /\ messages' = ExchangeAdd(messages, message)
    /\ turns' = turns + 1
    /\ pc' = "reply_enter"
    /\ ret' = "run_after"
    /\ UNCHANGED <<locals, message, config, log, outcome, intr, logged, nextId, gens, rvars, tvars>>

\* 186, 206-208: no input ends the loop
RunExit ==
    /\ pc = "while" /\ message = NoMessage
    /\ pc' = "exited"
    /\ UNCHANGED <<messages, locals, message, ret, config, log, history, rvars, tvars>>

\* 191-200: an exception other than KeyboardInterrupt: exchange.rewind()
RunHandlesException ==
    /\ pc = "raised" /\ mode = "run"
    /\ messages' = Rewind(messages)
    /\ outcome' = "error"
    /\ pc' = "run_after"
    /\ UNCHANGED <<locals, message, ret, config, log, before, intr, logged, nextId, turns, gens, rvars, tvars>>

\* 201-204: the next input
RunNextInput ==
    /\ pc = "run_after"
    /\ message' \in UserInputs
    /\ pc' = "while"
    /\ UNCHANGED <<messages, locals, ret, config, log, history, rvars, tvars>>

(***************************************************************************)
(* Session.single_pass (142-168)                                           *)
(***************************************************************************)
\* 155-158: the plan's kickoff message is popped, added again and answered
SinglePassPlan ==
    /\ pc = "start" /\ mode = "single_pass"
    /\ IF has_plan /\ Len(messages) > 0
       THEN /\ before' = Front(messages)
            /\ messages' = ExchangeAdd(Front(messages), Last(messages))
            /\ pc' = "reply_enter"
            /\ ret' = "sp_initial"
       ELSE /\ pc' = "sp_initial"
            /\ UNCHANGED <<messages, before, ret>>
    /\ UNCHANGED <<locals, message, config, log, outcome, intr, logged, nextId, turns, gens, rvars, tvars>>

\* 160-165: the initial message, when there is one
SinglePassInitial ==
    /\ pc = "sp_initial"
    /\ \/ /\ turns < MaxTurns
          /\ before' = messages
          /\ messages' = ExchangeAdd(messages, MessageUser("hi"))
          /\ turns' = turns + 1
          /\ pc' = "reply_enter"
          /\ ret' = "sp_end"
       \/ /\ pc' = "sp_end"
          /\ UNCHANGED <<messages, before, turns, ret>>
    /\ UNCHANGED <<locals, message, config, log, outcome, intr, logged, nextId, gens, rvars, tvars>>

\* an exception raised in reply() is not handled by single_pass: it reaches
\* the caller with the conversation as reply() left it
SinglePassPropagates ==
    /\ pc = "raised" /\ mode = "single_pass"
    /\ outcome' = "error"
    /\ pc' = "crashed"
    /\ UNCHANGED <<messages, locals, message, ret, config, log, before, intr, logged, nextId, turns, gens, rvars, tvars>>

(***************************************************************************)
(* Session.reply (210-246), one action per statement boundary              *)
(***************************************************************************)
\* the positions of reply() inside its try block (216-238)
InTry == {"generate", "generated", "loop_check", "call_tools", "add_tool_message"}

\* 214: committed = [self.exchange.messages[-1]]
ReplyEnter ==
    /\ pc = "reply_enter"
    /\ committed' = <<Last(messages)>>
    /\ response' = NoMessage
    /\ content' = <<>>
    /\ outcome' = "none"
    /\ intAt' = "none"
    /\ intMessages' = <<>>
    /\ intCommitted' = <<>>
    /\ logged' = 0
    /\ pc' = "generate"
    /\ UNCHANGED <<messages, message, ret, config, log, before, nextId, turns, gens, rvars, tvars>>

\* 218, 234: exchange.generate() returns: the reply is in the conversation,
\* not yet in committed
ReplyGenerate ==
    /\ pc = "generate" /\ gens < MaxGenerations
    /\ \E r \in ProviderReplies(nextId) :
          /\ messages' = ExchangeAdd(messages, r)
          /\ response' = r
          /\ nextId' = nextId + Len(tool_use(r))
    /\ gens' = gens + 1
    /\ pc' = "generated"
    /\ UNCHANGED <<committed, content, message, ret, config, log, before, outcome, intr, logged, turns, rvars, tvars>>

\* a plausible slip: the log written on the way out of a failing call
ReplyGenerateRaisesLogging ==
    /\ pc = "generate"
    /\ log' = Append(log, committed)
    /\ logged' = logged + 1
    /\ pc' = "raised"
    /\ UNCHANGED <<messages, locals, message, ret, config, before, outcome, intr, nextId, turns, gens, rvars, tvars>>

\* 218, 234: exchange.generate() raises an exception other than
\* KeyboardInterrupt: it leaves reply() past line 246
ReplyGenerateRaises ==
    /\ pc = "generate"
    /\ pc' = "raised"
    /\ UNCHANGED <<messages, locals, message, ret, config, log, history, rvars, tvars>>

\* 220, 235: committed.append(response)
ReplyCommitResponse ==
    /\ pc = "generated"
    /\ committed' = Append(committed, response)
    /\ pc' = "loop_check"
    /\ UNCHANGED <<messages, response, content, message, ret, config, log, history, rvars, tvars>>

\* 225-226: while response.tool_use: content = []
ReplyLoopCheck ==
    /\ pc = "loop_check"
    /\ IF tool_use(response) # <<>>
       THEN /\ content' = <<>>
            /\ pc' = "call_tools"
            /\ UNCHANGED outcome
       ELSE /\ outcome' = "completed"
            /\ pc' = "log"
            /\ UNCHANGED content
    /\ UNCHANGED <<messages, committed, response, message, ret, config, log, before, intr, logged, nextId, turns, gens, rvars, tvars>>

\* a plausible slip: results collected in reverse order
ReplyCallFunctionPrepending ==
    /\ pc = "call_tools" /\ Len(content) < Len(tool_use(response))
    /\ content' = <<CallFunction(tool_use(response)[Len(content) + 1])>> \o content
    /\ UNCHANGED <<messages, committed, response, message, pc, ret, config, log, history, rvars, tvars>>

\* 227-229: the next tool request is executed and its result collected
ReplyCallFunction ==
    /\ pc = "call_tools" /\ Len(content) < Len(tool_use(response))
    /\ content' = Append(content, CallFunction(tool_use(response)[Len(content) + 1]))
    /\ UNCHANGED <<messages, committed, response, message, pc, ret, config, log, history, rvars, tvars>>

\* 228: exchange.call_function raises an exception other than KeyboardInterrupt
ReplyCallFunctionRaises ==
    /\ pc = "call_tools" /\ Len(content) < Len(tool_use(response))
    /\ pc' = "raised"
    /\ UNCHANGED <<messages, locals, message, ret, config, log, history, rvars, tvars>>

\* 230-231: message = Message(role="user", content=content); committed.append(message)
ReplyCommitToolMessage ==
    /\ pc = "call_tools" /\ Len(content) = Len(tool_use(response))
    /\ committed' = Append(committed, Message("user", content))
    /\ pc' = "add_tool_message"
    /\ UNCHANGED <<messages, response, content, message, ret, config, log, history, rvars, tvars>>

\* 232: self.exchange.add(message); 234 is the next generate
ReplyAddToolMessage ==
    /\ pc = "add_tool_message"
    /\ messages' = ExchangeAdd(messages, Message("user", content))
    /\ pc' = "generate"
    /\ UNCHANGED <<locals, message, ret, config, log, history, rvars, tvars>>

\* 239-242: a KeyboardInterrupt delivered anywhere in the try block is
\* answered by interrupt_reply(committed)
ReplyKeyboardInterrupt ==
    /\ pc \in InTry
    /\ LET st == InterruptReply(messages, committed)
       IN  /\ messages' = st.messages
           /\ committed' = st.committed
    /\ intAt' = pc
    /\ intMessages' = messages
    /\ intCommitted' = committed
    /\ outcome' = "interrupted"
    /\ pc' = "log"
    /\ UNCHANGED <<response, content, message, ret, config, log, before, logged, nextId, turns, gens, rvars, tvars>>

\* 246: log_messages(self.session_file_path, committed); reply() returns
ReplyLogMessages ==
    /\ pc = "log"
    /\ log' = Append(log, committed)
    /\ logged' = logged + 1
    /\ pc' = ret
    /\ UNCHANGED <<messages, locals, message, ret, config, before, outcome, intr, nextId, turns, gens, rvars, tvars>>

(***************************************************************************)
(* RealtimeWebSocket and OpenAiRealtimeProvider (openai_realtime.py).      *)
(* Strings that the code concatenates or parses are sequences of           *)
(* characters.  In argument strings "c" abbreviates the member             *)
(* "command": "ls" and "d" the member "command": "ls -l".                  *)
(***************************************************************************)
\* self.max_tool_calls (openai_realtime.py 25)
max_tool_calls == 10

\* non-terminal events received by one send_message
MaxEvents == 3

\* calls of send_message on one RealtimeWebSocket
MaxRequests == 2

\* the fragments a response.text.delta can carry
TextFragments == {<<"h">>, <<"e", "l", "l", "o">>}

\* the fragments a response.function_call_arguments.delta can carry
ArgFragments == {<<"{", "c", "}">>, <<"{", "d">>, <<"}">>, <<"1">>}

\* tool_call_id and function_name of a delta event: both absent, or given
DeltaHeaders ==
    { [tool_call_id |-> "absent", function_name |-> "absent"],
      [tool_call_id |-> "t1",     function_name |-> "shell"],
      [tool_call_id |-> "t2",     function_name |-> "bad name"] }

Event(type, delta, hdr) ==
    [type |-> type, delta |-> delta,
     tool_call_id |-> hdr.tool_call_id, function_name |-> hdr.function_name]

NoHeader == [tool_call_id |-> "absent", function_name |-> "absent"]

TextDeltaEvents == { Event("response.text.delta", f, NoHeader) : f \in TextFragments }

ArgsDeltaEvents ==
    { Event("response.function_call_arguments.delta", f, h) :
        f \in ArgFragments, h \in DeltaHeaders }

ArgsDoneEvent == Event("response.function_call_arguments.done", <<>>, NoHeader)

ResponseDoneEvent == Event("response.done", <<>>, NoHeader)

ErrorEvent == Event("error", <<>>, NoHeader)

\* json.loads (134, 172, 176, 373) on the strings ArgFragments can build
JsonLoads(s) ==
    IF s = <<"{", "c", "}">> THEN [ok |-> TRUE, kind |-> "object", command |-> "ls"]
    ELSE IF s = <<"{", "d", "}">> THEN [ok |-> TRUE, kind |-> "object", command |-> "ls -l"]
    ELSE IF s # <<>> /\ \A i \in 1..Len(s) : s[i] = "1"
         THEN [ok |-> TRUE, kind |-> "number", command |-> "none"]
    ELSE [ok |-> FALSE, kind |-> "invalid", command |-> "none"]

\* 152: event.get("tool_call_id", f"call_{len(tool_calls)}")
ToolCallId(e, calls) ==
    IF e.tool_call_id = "absent" THEN <<"call_", Len(calls)>> ELSE <<e.tool_call_id>>

\* 159: event.get("function_name", "shell")
FunctionName(e) == IF e.function_name = "absent" THEN "shell" ELSE e.function_name

NoToolCall == [type |-> "None", id |-> <<>>, name |-> "", arguments |-> <<>>, error |-> "none"]

\* plausible slips in the assembler
\* the fragment put in front of the buffer
OnArgumentsDeltaPrepending(cur, calls, e) ==
    IF cur = NoToolCall
    THEN [type |-> "function", id |-> ToolCallId(e, calls), name |-> FunctionName(e),
          arguments |-> e.delta, error |-> "none"]
    ELSE [cur EXCEPT !.arguments = e.delta \o @]

\* 149-164: the in-progress call after an argument delta
OnArgumentsDelta(cur, calls, e) ==
    IF cur = NoToolCall
    THEN [type |-> "function", id |-> ToolCallId(e, calls), name |-> FunctionName(e),
          arguments |-> e.delta, error |-> "none"]
    ELSE [cur EXCEPT !.arguments = @ \o e.delta]

\* a plausible slip: the buffer overwritten by the fragment
OnTextDeltaOverwriting(text, e) == e.delta

\* 146-147: content_text += event["delta"]
OnTextDelta(text, e) == text \o e.delta

\* 194-211: the response dict built at response.done
NoResponse == [content |-> <<"None">>, tool_calls |-> <<>>, built |-> FALSE]

Response(text, calls) ==
    [content |-> IF text # <<>> THEN <<"str", text>> ELSE <<"None">>,
     tool_calls |-> calls, built |-> TRUE]

(***************************************************************************)
(* OpenAiRealtimeProvider._response_to_message (343-387)                   *)
(***************************************************************************)
RtText(t) == [type |-> "Text", text |-> t, id |-> <<>>, name |-> "", is_error |-> FALSE]

RtToolUse(id, name, err, msg) ==
    [type |-> "ToolUse", text |-> <<>>, id |-> id, name |-> name, is_error |-> err, error_message |-> msg]

\* 358: re.match(r"^[a-zA-Z0-9_-]+$", function_name)
ValidFunctionName(name) == name = "shell"

\* 355-385: one ToolUse per tool call
ToolCallToToolUse(tc) ==
    IF ~ValidFunctionName(tc.name) THEN RtToolUse(tc.id, tc.name, TRUE, "Invalid function name")
    ELSE IF JsonLoads(tc.arguments).ok THEN RtToolUse(tc.id, tc.name, FALSE, "None")
    ELSE RtToolUse(tc.id, tc.name, TRUE, "Invalid tool parameters")

ResponseToMessage(resp) ==
    Message("assistant",
            (IF resp.content[1] = "str" /\ resp.content[2] # <<>>
             THEN <<RtText(resp.content[2])>> ELSE <<>>)
            \o [k \in 1..Len(resp.tool_calls) |-> ToolCallToToolUse(resp.tool_calls[k])])

NoReply == Message("none", <<>>)

(***************************************************************************)
(* OpenAiRealtimeProvider.get_usage (257-273)                              *)
(***************************************************************************)
Usage(i, o, t) == [input_tokens |-> i, output_tokens |-> o, total_tokens |-> t]

NoUsage == Usage(0, 0, 0)

\* a plausible slip: the estimate without its floor of one token
GetUsageWithoutFloor(data) ==
    IF data.built /\ data.content[1] = "str" /\ data.content[2] # <<>>
    THEN LET content_len == Len(data.content[2])
             estimated_tokens == content_len \div 4
         IN  Usage(estimated_tokens, estimated_tokens, estimated_tokens * 2)
    ELSE Usage(1, 1, 2)

\* 260-273: four characters to a token, at least one token
GetUsage(data) ==
    IF data.built /\ data.content[1] = "str" /\ data.content[2] # <<>>
    THEN LET content_len == Len(data.content[2])
             estimated_tokens == IF content_len \div 4 > 1 THEN content_len \div 4 ELSE 1
         IN  Usage(estimated_tokens, estimated_tokens, estimated_tokens * 2)
    ELSE Usage(1, 1, 2)

\* Message.text: the text of the Text items of a message
RECURSIVE MessageText(_)
MessageText(cont) ==
    IF cont = <<>> THEN <<>>
    ELSE (IF Head(cont).type = "Text" THEN Head(cont).text ELSE <<>>) \o MessageText(Tail(cont))

(***************************************************************************)
(* OpenAiRealtimeProvider.complete (288-341): what it hands send_message   *)
(***************************************************************************)
\* Message.text of a conversation message ("" when it holds no Text)
TextOf(m) ==
    LET ts == SelectSeq(m.content, LAMBDA c : c.type = "Text")
    IN  IF ts = <<>> THEN "" ELSE ts[1].text

\* 299-309: the text of the most recent user message that holds text
RECURSIVE LastUserText(_)
LastUserText(ms) ==
    IF ms = <<>> THEN ""
    ELSE IF Last(ms).role = "user" /\ TextOf(Last(ms)) # "" THEN TextOf(Last(ms))
    ELSE LastUserText(Front(ms))

HistoryItem(m) == [type |-> "message", role |-> m.role, text |-> TextOf(m)]

\* 314-328: every message but the last that has text
HistoryOf(ms) ==
    IF Len(ms) > 1
    THEN LET sel == SelectSeq(Front(ms), LAMBDA m : TextOf(m) # "")
         IN  [items |-> [k \in 1..Len(sel) |-> HistoryItem(sel[k])], none |-> FALSE]
    ELSE [items |-> <<>>, none |-> FALSE]

\* history=None, the default of send_message (47)
HistoryNone == [items |-> <<>>, none |-> TRUE]

\* the conversations complete() is called with: a first message, a later
\* turn, and a tool round whose last message holds only tool results
Conversations ==
    { <<MessageUser("hi")>>,
      <<MessageUser("earlier"), MessageAssistant("earlier reply"), MessageUser("hi")>>,
      <<MessageUser("hi"),
        Message("assistant", <<ToolUse(1, "shell")>>),
        Message("user", <<ToolResult(1, "output", FALSE)>>)>> }

(***************************************************************************)
(* RealtimeWebSocket.__init__ (18-27)                                      *)
(***************************************************************************)
\* what the request has received so far: the number of events, the text
\* fragments, the argument fragments of the open call and of each call
\* closed by a done event, whether any tool-call event arrived and whether
\* response.done did
NothingHeard == [n |-> 0, text |-> <<>>, open |-> <<>>, calls |-> <<>>, tool |-> FALSE, done |-> FALSE]

NoResult == [kind |-> "none", error |-> "none", response |-> NoResponse, message |-> NoReply,
             usage |-> NoUsage]

\* 19-27: the fields __init__ sets
NewRealtimeWebSocket ==
    [ws |-> "None", is_first_connection |-> TRUE, tool_call_count |-> 0,
     max_tool_calls |-> max_tool_calls, current_tool_result |-> "None", current_tool_id |-> <<>>]

\* the state around the fields of a RealtimeWebSocket o: no request made
Constructed(o) ==
    /\ ws = o.ws
    /\ sock_timeout = "unset"
    /\ is_first_connection = o.is_first_connection
    /\ tool_call_count = o.tool_call_count
    /\ current_tool_result = o.current_tool_result
    /\ current_tool_id = o.current_tool_id
    /\ rpc = "idle"
    /\ via = "none"
    /\ content_text = <<>>
    /\ tool_calls = <<>>
    /\ current_tool_call = NoToolCall
    /\ sent = <<>>
    /\ heard = NothingHeard
    /\ requests = 0
    /\ result = NoResult

RealtimeInit == Constructed(NewRealtimeWebSocket)

(***************************************************************************)
(* RealtimeWebSocket.send_message (44-225): up to the receive loop         *)
(***************************************************************************)
Sent(kind, role, text) == [type |-> kind, role |-> role, text |-> text]

\* 64: not self.ws or not self.ws.connected
MustConnect == ws # "connected"

\* a plausible slip: the history replayed on every call
SendPlanReplayingHistory(msg, hist) ==
    [k \in 1..Len(hist.items) |->
        Sent("conversation.item.create", hist.items[k].role, <<hist.items[k].text>>)]
    \o (IF current_tool_result # "None"
        THEN <<Sent("conversation.item.create", "user", <<"Tool result:", current_tool_result>>)>>
        ELSE <<>>)
    \o <<Sent("conversation.item.create", "user", <<msg>>), Sent("response.create", "", <<>>)>>

\* 68-73, 88-101, 106-118: what the request sends, in order
SendPlan(msg, hist) ==
    (IF MustConnect
     THEN [k \in 1..Len(hist.items) |->
              Sent("conversation.item.create", hist.items[k].role, <<hist.items[k].text>>)]
     ELSE <<>>)
    \o (IF current_tool_result # "None"
        THEN <<Sent("conversation.item.create", "user", <<"Tool result:", current_tool_result>>)>>
        ELSE <<>>)
    \o <<Sent("conversation.item.create", "user", <<msg>>), Sent("response.create", "", <<>>)>>

\* 215-223: the except clause closes a connected socket and drops it
Handler(w) == IF w = "connected" THEN "None" ELSE w

\* the locals of send_message, as it is entered and after it is left
ResetLocals ==
    /\ content_text' = <<>>
    /\ tool_calls' = <<>>
    /\ current_tool_call' = NoToolCall

\* send_message raises err with the socket left as w, its timeout as t;
\* what it had received is gone with its locals
Raises(err, w, t) ==
    /\ ws' = w
    /\ sock_timeout' = IF w = "None" THEN "unset" ELSE t
    /\ rpc' = "idle"
    /\ result' = [NoResult EXCEPT !.kind = "raised", !.error = err]
    /\ heard' = NothingHeard
    /\ ResetLocals

\* the callers: complete() with a conversation, or send_message(message)
\* directly with the default history
Calls ==
    { [via |-> "complete", message |-> LastUserText(ms), history |-> HistoryOf(ms)] :
        ms \in Conversations }
    \cup { [via |-> "send_message", message |-> "hi", history |-> HistoryNone] }

\* 59-118: everything is sent, the receive loop is entered
SendMessageSends ==
    /\ rpc = "idle" /\ requests < MaxRequests
    /\ \E c \in Calls :
          /\ MustConnect => ~c.history.none
          /\ via' = c.via
          /\ sent' = SendPlan(c.message, c.history)
    /\ ws' = "connected"
    /\ sock_timeout' = IF ws = "connected" THEN "set" ELSE "unset"
    /\ current_tool_result' = "None"
    /\ current_tool_id' = IF current_tool_result # "None" THEN <<>> ELSE current_tool_id
    /\ ResetLocals
    /\ heard' = NothingHeard
    /\ requests' = requests + 1
    /\ result' = NoResult
    /\ rpc' = "recv"
    /\ UNCHANGED <<is_first_connection, tool_call_count, svars, tvars>>

\* 64-66: connect() returns False
SendMessageConnectFails ==
    /\ rpc = "idle" /\ MustConnect /\ requests < MaxRequests
    /\ \E c \in Calls : via' = c.via
    /\ sent' = <<>>
    /\ requests' = requests + 1
    /\ Raises("Failed to connect to websocket", Handler(ws), "set")
    /\ UNCHANGED <<is_first_connection, tool_call_count, current_tool_result, current_tool_id, svars, tvars>>

\* 68: for hist_msg in history, with history None, on a fresh connection
SendMessageHistoryNone ==
    /\ rpc = "idle" /\ MustConnect /\ requests < MaxRequests
    /\ \E c \in Calls : c.history.none /\ via' = c.via
    /\ sent' = <<>>
    /\ requests' = requests + 1
    /\ Raises("TypeError", Handler("connected"), "unset")
    /\ UNCHANGED <<is_first_connection, tool_call_count, current_tool_result, current_tool_id, svars, tvars>>

\* 73, 101, 117, 118: the k-th ws.send raises
SendMessageSendFails ==
    /\ rpc = "idle" /\ requests < MaxRequests
    /\ \E c \in Calls :
          /\ MustConnect => ~c.history.none
          /\ via' = c.via
          /\ LET plan == SendPlan(c.message, c.history)
             IN  \E k \in 1..Len(plan) :
                    /\ sent' = SubSeq(plan, 1, k - 1)
                    \* 102-103 run once the stored result has been sent
                    /\ LET cleared == /\ current_tool_result # "None"
                                      /\ \E j \in 1..(k - 1) : plan[j].text = <<"Tool result:", current_tool_result>>
                       IN  /\ current_tool_result' = IF cleared THEN "None" ELSE current_tool_result
                           /\ current_tool_id' = IF cleared THEN <<>> ELSE current_tool_id
    /\ requests' = requests + 1
    \* the failed socket may or may not still report connected
    /\ \E w \in {"connected", "closed"} :
          Raises("send failed", Handler(w), IF ws = "connected" THEN "set" ELSE "unset")
    /\ UNCHANGED <<is_first_connection, tool_call_count, svars, tvars>>

(***************************************************************************)
(* RealtimeWebSocket.send_message: the receive loop (127-213), one action  *)
(* per outcome of an iteration                                             *)
(***************************************************************************)
\* a plausible slip: the check lets the count pass the maximum
LimitReachedAbove == tool_call_count > max_tool_calls

\* 139: the check made on every received event
LimitReached == tool_call_count >= max_tool_calls

Hear(e) ==
    [n     |-> heard.n + 1,
     text  |-> IF e.type = "response.text.delta" THEN Append(heard.text, e.delta) ELSE heard.text,
     open  |-> IF e.type = "response.function_call_arguments.delta" THEN Append(heard.open, e.delta)
               ELSE IF e.type = "response.function_call_arguments.done" THEN <<>>
               ELSE heard.open,
     calls |-> IF e.type = "response.function_call_arguments.done" /\ heard.open # <<>>
               THEN Append(heard.calls, heard.open) ELSE heard.calls,
     tool  |-> heard.tool \/ e.type \in {"response.function_call_arguments.delta",
                                         "response.function_call_arguments.done"},
     done  |-> heard.done \/ e.type = "response.done"]

\* the loop may take another non-terminal event
MayContinue == rpc = "recv" /\ heard.n < MaxEvents

recvFrame == <<is_first_connection, via, sent, requests, svars, tvars>>

\* 141: the message of the limit error
LimitError == "Exceeded maximum tool calls"

\* 139-141: the event is dropped and the limit error raised
RaisesLimit ==
    /\ Raises(LimitError, Handler(ws), sock_timeout)
    /\ UNCHANGED <<tool_call_count, current_tool_result, current_tool_id>>

\* 143-144
RecvError ==
    /\ rpc = "recv"
    /\ IF LimitReached THEN RaisesLimit
       ELSE /\ Raises("API Error", Handler(ws), sock_timeout)
            /\ UNCHANGED <<tool_call_count, current_tool_result, current_tool_id>>
    /\ UNCHANGED recvFrame

\* 146-147
RecvTextDelta ==
    /\ MayContinue
    /\ \E e \in TextDeltaEvents :
          /\ IF LimitReached THEN RaisesLimit
             ELSE /\ heard' = Hear(e)
                  /\ content_text' = OnTextDelta(content_text, e)
                  /\ UNCHANGED <<ws, sock_timeout, tool_call_count, current_tool_result,
                                 current_tool_id, rpc, tool_calls, current_tool_call, result>>
    /\ UNCHANGED recvFrame

\* 149-164
ArgumentsDelta(e) ==
    IF LimitReached THEN RaisesLimit
    ELSE /\ heard' = Hear(e)
         /\ current_tool_call' = OnArgumentsDelta(current_tool_call, tool_calls, e)
         /\ tool_call_count' = IF current_tool_call = NoToolCall
                               THEN tool_call_count + 1 ELSE tool_call_count
         /\ UNCHANGED <<ws, sock_timeout, current_tool_result, current_tool_id,
                        rpc, content_text, tool_calls, result>>

RecvArgumentsDelta ==
    /\ MayContinue
    /\ \E e \in ArgsDeltaEvents : ArgumentsDelta(e)
    /\ UNCHANGED recvFrame

\* 181: what subprocess.check_output(["ls"]) can give, a short listing or
\* one longer than a thousand characters (or the text of the exception, 184)
ToolOutputs == {"short listing", "long listing"}

\* len() of an output
OutputChars(o) == IF o = "long listing" THEN 1001 ELSE 13

\* 181-182: the decoded output is stored whole
StoreToolResult(o) == o

\* 166-190
ArgumentsDone ==
    /\ LET args == JsonLoads(current_tool_call.arguments)
       IN  IF LimitReached THEN RaisesLimit
           ELSE IF current_tool_call = NoToolCall
           THEN \* 167: nothing is open, the event is passed over
                /\ heard' = Hear(ArgsDoneEvent)
                /\ UNCHANGED <<ws, sock_timeout, tool_call_count, current_tool_result, current_tool_id,
                            rpc, content_text, tool_calls, current_tool_call, result>>
           ELSE IF ~args.ok
           THEN \* 186-190: JSONDecodeError, the call is kept with an error note
                /\ heard' = Hear(ArgsDoneEvent)
                /\ tool_calls' = Append(tool_calls,
                                        [current_tool_call EXCEPT !.error = "Invalid JSON arguments"])
                /\ current_tool_call' = NoToolCall
                /\ UNCHANGED <<ws, sock_timeout, tool_call_count, current_tool_result,
                               current_tool_id, rpc, content_text, result>>
           ELSE IF args.kind # "object"
           THEN \* 177: "command" in args raises TypeError for a number; it
                \* leaves through the except clause (215-223)
                /\ current_tool_id' = current_tool_call.id
                /\ Raises("TypeError", Handler(ws), sock_timeout)
                /\ UNCHANGED <<tool_call_count, current_tool_result>>
           ELSE \* 175-185, 190
                /\ heard' = Hear(ArgsDoneEvent)
                /\ current_tool_id' = current_tool_call.id
                /\ IF args.command = "ls"
                   THEN \E o \in ToolOutputs : current_tool_result' = StoreToolResult(o)
                   ELSE UNCHANGED current_tool_result
                /\ tool_calls' = Append(tool_calls, current_tool_call)
                /\ current_tool_call' = NoToolCall
                /\ UNCHANGED <<ws, sock_timeout, tool_call_count, rpc, content_text, result>>

RecvArgumentsDone ==
    /\ MayContinue
    /\ ArgumentsDone
    /\ UNCHANGED recvFrame

\* the done event of a call that the last delta within the bound has left
\* open: a response that completes two calls
RecvArgumentsDoneLate ==
    /\ rpc = "recv" /\ heard.n = MaxEvents /\ current_tool_call # NoToolCall
    /\ ArgumentsDone
    /\ UNCHANGED recvFrame

\* 192-213: response.done ends the request; complete() turns the response
\* into a message (338) and estimates its usage (339)
RecvResponseDone ==
    /\ rpc = "recv"
    /\ IF LimitReached THEN RaisesLimit
       ELSE /\ heard' = Hear(ResponseDoneEvent)
            /\ LET resp == Response(content_text, tool_calls)
               IN  result' = [kind |-> "returned", error |-> "none", response |-> resp,
                              message |-> IF via = "complete" THEN ResponseToMessage(resp) ELSE NoReply,
                              usage |-> IF via = "complete" THEN GetUsage(resp) ELSE NoUsage]
            /\ rpc' = "idle"
            /\ ResetLocals
            /\ UNCHANGED <<ws, sock_timeout, tool_call_count, current_tool_result, current_tool_id>>
    /\ UNCHANGED recvFrame

\* a plausible slip: the timeout ends the request with what it has
RecvTimeoutReturningPartial ==
    /\ rpc = "recv"
    /\ LET resp == Response(content_text, tool_calls)
       IN  result' = [kind |-> "returned", error |-> "none", response |-> resp,
                      message |-> IF via = "complete" THEN ResponseToMessage(resp) ELSE NoReply,
                              usage |-> IF via = "complete" THEN GetUsage(resp) ELSE NoUsage]
    /\ rpc' = "idle"
    /\ ResetLocals
    /\ UNCHANGED <<ws, sock_timeout, heard, tool_call_count, current_tool_result, current_tool_id, recvFrame>>

\* 133-137: recv() times out, or the payload is no JSON
RecvTimeoutOrMalformed ==
    /\ rpc = "recv"
    /\ Raises("WebSocket error", Handler(ws), sock_timeout)
    /\ UNCHANGED <<tool_call_count, current_tool_result, current_tool_id, recvFrame>>

\* 133: recv() raises because the connection is gone: the socket is no
\* longer connected, the except clause keeps it
RecvConnectionClosed ==
    /\ rpc = "recv"
    /\ Raises("connection closed", Handler("closed"), sock_timeout)
    /\ UNCHANGED <<tool_call_count, current_tool_result, current_tool_id, recvFrame>>

\* a plausible slip: the deadline check left out
RecvDeadlineNeverChecked == FALSE /\ UNCHANGED vars

\* 129-130: the deadline check at the top of the loop
RecvDeadline ==
    /\ rpc = "recv"
    /\ Raises("Response timeout exceeded", Handler(ws), sock_timeout)
    /\ UNCHANGED <<tool_call_count, current_tool_result, current_tool_id, recvFrame>>

\* a KeyboardInterrupt during recv() is no Exception: it leaves
\* send_message without passing the except clause
RecvKeyboardInterrupt ==
    /\ rpc = "recv"
    /\ rpc' = "idle"
    /\ result' = [NoResult EXCEPT !.kind = "interrupted", !.error = "KeyboardInterrupt"]
    /\ heard' = NothingHeard
    /\ ResetLocals
    /\ UNCHANGED <<ws, sock_timeout, tool_call_count, current_tool_result, current_tool_id, recvFrame>>

\* 229-231: the socket after close(): a socket held is closed and dropped
CloseWs(w) == IF w # "None" THEN "None" ELSE w

\* 227-231: close()
Close ==
    /\ rpc = "idle" /\ ws # "None"
    /\ ws' = CloseWs(ws)
    /\ sock_timeout' = "unset"
    /\ UNCHANGED <<is_first_connection, tool_call_count, current_tool_result, current_tool_id,
                   rpc, via, content_text, tool_calls, current_tool_call, sent, heard, result,
                   requests, svars, tvars>>

RealtimeNext ==
    \/ SendMessageSends
    \/ SendMessageConnectFails
    \/ SendMessageHistoryNone
    \/ SendMessageSendFails
    \/ RecvError
    \/ RecvTextDelta
    \/ RecvArgumentsDelta
    \/ RecvArgumentsDone
    \/ RecvResponseDone
    \/ RecvTimeoutOrMalformed
    \/ RecvConnectionClosed
    \/ RecvDeadline
    \/ RecvKeyboardInterrupt
    \/ Close

(***************************************************************************)
(* SynopsisDeveloper (src/src/goose/synopsis/toolkit.py): text_editor and  *)
(* change_dir.  A path is the sequence of its directory names below the    *)
(* root, each name coded by its rank in string order (1 < 2 < 3), as       *)
(* system.to_patho returns it resolved.  goose.synopsis.system is not part *)
(* of src/: is_active(path) is taken to hold for the files remember_file   *)
(* has recorded.                                                           *)
(***************************************************************************)
DirNames == {1, 2, 3}

\* the directories that exist: the root and two levels below it
Dirs == {<<>>} \cup { <<a>> : a \in DirNames } \cup { <<a, b>> : a, b \in DirNames }

\* a path where no directory is
NoSuchDir == <<2, 2, 2>>

\* os.getcwd(): the directory goose was started in (nothing calls chdir)
StartDir == <<2>>

\* the files text_editor is called on, and what can be written to them
FilePaths == {"a.txt", "b.txt"}

FileTexts == {"x", "y"}

\* PurePath.__lt__ as change_dir uses it (413): the parts of the two paths
\* compared as lists, part by part
RECURSIVE PathLess(_, _)
PathLess(p, q) ==
    IF p = <<>> THEN q # <<>>
    ELSE IF q = <<>> THEN FALSE
    ELSE IF Head(p) # Head(q) THEN Head(p) < Head(q)
    ELSE PathLess(Tail(p), Tail(q))

\* system.is_active(path): the file has been recorded
IsActive(path) == path \in active

\* system.remember_file(path)
RememberFile(path) == active \cup {path}

NoToolResult == [kind |-> "none", text |-> "none"]

Returned(t) == [kind |-> "returned", text |-> t]

Raised(e) == [kind |-> "raised", text |-> e]

\* SynopsisDeveloper.__init__ (26-28) in the start directory
NewToolkit ==
    /\ cwd = StartDir
    /\ active = {}
    /\ file_history = [f \in FilePaths |-> "none"]
    /\ tk_result = NoToolResult

\* the toolkit with no file on disk, where it is not used
ToolkitUnused == NewToolkit /\ files = [f \in FilePaths |-> "absent"]

\* the toolkit over any files found on disk
ToolkitInit == NewToolkit /\ files \in [FilePaths -> {"absent", "x"}]

\* 140-143 _save_file_history: read_text() of the file as it is
SaveFileHistory(path) ==
    IF files[path] = "absent" THEN [raised |-> TRUE, history |-> file_history]
    ELSE [raised |-> FALSE, history |-> [file_history EXCEPT ![path] = files[path]]]

\* 75-97 _write_file
WriteFile(path, file_text) ==
    IF files[path] # "absent" /\ ~IsActive(path)
    THEN /\ tk_result' = Raised("ValueError: You must view before you overwrite")
         /\ UNCHANGED <<files, active, file_history>>
    ELSE IF SaveFileHistory(path).raised
    THEN \* 83: read_text() of a file that does not exist
         /\ tk_result' = Raised("FileNotFoundError")
         /\ UNCHANGED <<files, active, file_history>>
    ELSE /\ file_history' = SaveFileHistory(path).history
         /\ files' = [files EXCEPT ![path] = file_text]
         /\ active' = RememberFile(path)
         /\ tk_result' = Returned("Successfully wrote")

\* 201-243 text_editor, command "view" on a file path
TextEditorView ==
    /\ \E path \in FilePaths :
          IF files[path] # "absent"
          THEN /\ active' = RememberFile(path)
               /\ tk_result' = Returned("Displayed content")
          ELSE /\ tk_result' = Raised("ValueError: The path does not exist")
               /\ UNCHANGED active
    /\ UNCHANGED <<cwd, files, file_history, svars, rvars>>

\* 263-269 text_editor, command "create"
TextEditorCreate ==
    /\ \E path \in FilePaths, file_text \in FileTexts : WriteFile(path, file_text)
    /\ UNCHANGED <<cwd, svars, rvars>>

\* 145-170 _undo_edit, reached from text_editor, command "undo_edit"
TextEditorUndoEdit ==
    /\ \E path \in FilePaths :
          IF files[path] = "absent"
          THEN /\ tk_result' = Raised("ValueError: The file does not exist")
               /\ UNCHANGED <<files, active, file_history>>
          ELSE IF file_history[path] = "none"
          THEN /\ tk_result' = Raised("ValueError: No edit history available")
               /\ UNCHANGED <<files, active, file_history>>
          ELSE /\ files' = [files EXCEPT ![path] = file_history[path]]
               /\ file_history' = [file_history EXCEPT ![path] = "none"]
               /\ active' = RememberFile(path)
               /\ tk_result' = Returned("Successfully undid the last edit")
    /\ UNCHANGED <<cwd, svars, rvars>>

\* 404-418 change_dir
ChangeDirTo(patho) ==
    IF patho \notin Dirs
    THEN /\ tk_result' = Raised("ValueError: The directory does not exist")
         /\ UNCHANGED cwd
    ELSE IF PathLess(patho, StartDir)
    THEN /\ tk_result' = Raised("ValueError: You can cd into subdirs but not above")
         /\ UNCHANGED cwd
    ELSE /\ cwd' = patho
         /\ tk_result' = Returned("path")

ChangeDir ==
    /\ \E patho \in Dirs \cup {NoSuchDir} : ChangeDirTo(patho)
    /\ UNCHANGED <<files, active, file_history, svars, rvars>>

ToolkitNext ==
    \/ TextEditorView
    \/ TextEditorCreate
    \/ TextEditorUndoEdit
    \/ ChangeDir

\* the toolkit alone
ToolkitOnlyInit ==
    /\ ToolkitInit
    /\ RealtimeInit
    /\ SessionInit /\ mode = "run" /\ ~has_plan /\ messages = <<>>

ToolkitSpec == ToolkitOnlyInit /\ [][ToolkitNext]_vars

\* the protocol client alone, from a new RealtimeWebSocket
RealtimeOnlyInit ==
    /\ RealtimeInit
    /\ ToolkitUnused
    /\ SessionInit /\ mode = "run" /\ ~has_plan /\ messages = <<>>

RealtimeSpec == RealtimeOnlyInit /\ [][RealtimeNext]_vars

\* a RealtimeWebSocket that earlier requests have brought close to the
\* limit: tool_call_count is never reset, so eight or nine calls whose
\* arguments were no JSON, then close(), leave every other field as new
NearLimit ==
    { [NewRealtimeWebSocket EXCEPT !.tool_call_count = n] :
        n \in {max_tool_calls - 2, max_tool_calls - 1} }

LimitInit ==
    /\ \E o \in NearLimit : Constructed(o)
    /\ ToolkitUnused
    /\ SessionInit /\ mode = "run" /\ ~has_plan /\ messages = <<>>

LimitSpec == LimitInit /\ [][RealtimeNext]_vars

\* the protocol client with responses that complete up to two calls
ToolChainNext ==
    \/ RealtimeNext
    \/ RecvArgumentsDoneLate

ToolChainSpec == RealtimeOnlyInit /\ [][ToolChainNext]_vars

Init == SessionInit /\ RealtimeInit /\ ToolkitUnused

Next ==
    \/ ProcessFirstMessage
    \/ RunSubmit
    \/ RunExit
    \/ RunHandlesException
    \/ RunNextInput
    \/ SinglePassPlan
    \/ SinglePassInitial
    \/ SinglePassPropagates
    \/ ReplyEnter
    \/ ReplyGenerate
    \/ ReplyGenerateRaises
    \/ ReplyCommitResponse
    \/ ReplyLoopCheck
    \/ ReplyCallFunction
    \/ ReplyCallFunctionRaises
    \/ ReplyCommitToolMessage
    \/ ReplyAddToolMessage
    \/ ReplyKeyboardInterrupt
    \/ ReplyLogMessages

Spec == Init /\ [][Next]_vars

(***************************************************************************)
(* Properties of the turn orchestrator                                     *)
(***************************************************************************)
\* every ToolUse of ms is followed, in a later message, by a ToolResult
\* with its id
NoDanglingToolUse(ms) ==
    \A i \in 1..Len(ms) : \A a \in 1..Len(ms[i].content) :
        ms[i].content[a].type = "ToolUse" =>
            \E j \in (i + 1)..Len(ms) : \E b \in 1..Len(ms[j].content) :
                /\ ms[j].content[b].type = "ToolResult"
                /\ ms[j].content[b].id = ms[i].content[a].id

HasToolUse(ms) == \E i \in 1..Len(ms) : tool_use(ms[i]) # <<>>

\* the reply() call was ended by interrupt_reply and has not returned further
\* than its caller's next statement
Interrupted == outcome = "interrupted"

\* C1: after interrupt_reply has completed, wherever in reply() the interrupt
\* was delivered, every ToolUse of exchange.messages is followed later by a
\* ToolResult with the same tool_use_id.
C1_NoDanglingAfterInterrupt == Interrupted => NoDanglingToolUse(messages)

\* C1 witness: interrupted during a later generate, after a tool round: the
\* tool request is in the conversation and recovery has run.
C1_Witness ==
    /\ Interrupted /\ pc = "log"
    /\ intAt = "generate" /\ response # NoMessage
    /\ HasToolUse(messages)

\* C2: whenever reply() reaches log_messages, committed is exactly what the
\* turn has left in exchange.messages, in order, from the turn's message on.
C2_CommittedIsTurnSuffix ==
    pc = "log" =>
        /\ Len(before) <= Len(messages)
        /\ SubSeq(messages, 1, Len(before)) = before
        /\ committed = SubSeq(messages, Len(before) + 1, Len(messages))

\* interrupt_reply was entered with an assistant message holding tool
\* requests as last entry
InterruptedAtToolRequests ==
    /\ Interrupted /\ pc = "log"
    /\ intMessages # <<>>
    /\ Last(intMessages).role = "assistant"
    /\ tool_use(Last(intMessages)) # <<>>

\* C3: interrupt_reply entered with an assistant message with n >= 1 pending
\* tool requests as last entry appends one message of exactly n synthetic
\* error ToolResults, one per request in request order, then exactly one
\* assistant acknowledgement; committed grows as much as the conversation.
C3_SyntheticResultsPerRequest ==
    InterruptedAtToolRequests =>
        LET tus == tool_use(Last(intMessages))
            n   == Len(messages)
        IN  /\ n = Len(intMessages) + 2
            /\ SubSeq(messages, 1, Len(intMessages)) = intMessages
            /\ messages[n - 1].role = "user"
            /\ Len(messages[n - 1].content) = Len(tus)
            /\ \A j \in 1..Len(tus) :
                  messages[n - 1].content[j] = ToolResult(tus[j].id, INTERRUPTED_OUTPUT, TRUE)
            /\ messages[n].role = "assistant"
            /\ Len(messages[n].content) = 1
            /\ messages[n].content[1].type = "Text"
            /\ Len(committed) - Len(intCommitted) = Len(messages) - Len(intMessages)

\* C3 witness: Scenario D, two pending tool requests, interrupted during
\* the tool calls.
C3_Witness ==
    /\ InterruptedAtToolRequests
    /\ intAt = "call_tools"
    /\ Len(tool_use(Last(intMessages))) = 2
    /\ Len(messages[Len(messages) - 1].content) = 2

\* interrupt_reply was entered during the first generate of the turn, with
\* the turn's user message as last entry
InterruptedBeforeFirstReply ==
    /\ Interrupted
    /\ intAt = "generate" /\ response = NoMessage
    /\ intMessages # <<>> /\ Last(intMessages).role = "user"

\* C4: interrupted while the last entry is the turn's unanswered user
\* message, interrupt_reply removes it from the conversation and from
\* committed: the conversation is what it was before the turn, and the
\* committed list that is flushed is empty.
C4_UnansweredMessageRemoved ==
    /\ (InterruptedBeforeFirstReply /\ pc = "log") =>
           (messages = before /\ committed = <<>>)
    /\ (InterruptedBeforeFirstReply /\ logged = 1) => Last(log) = <<>>

\* C4 witness: the interrupted turn has been flushed.
C4_Witness == InterruptedBeforeFirstReply /\ logged = 1 /\ before # <<>>

\* interrupt_reply was entered with a plain assistant message as last entry
InterruptedAfterPlainReply ==
    /\ Interrupted /\ pc = "log"
    /\ intMessages # <<>>
    /\ Last(intMessages).role = "assistant"
    /\ tool_use(Last(intMessages)) = <<>>

\* C5: interrupt_reply entered with an assistant message without tool
\* requests as last entry changes neither exchange.messages nor committed.
C5_PlainReplyUntouched ==
    InterruptedAfterPlainReply =>
        (messages = intMessages /\ committed = intCommitted)

\* C5 witness: interrupted right after generate appended a plain reply.
C5_Witness == InterruptedAfterPlainReply /\ intAt = "generated"

\* C6: log_messages runs at most once per reply() call, only once the turn
\* has settled (a reply without tool requests ended the loop, or interrupt
\* recovery ran); a call that ends by an exception other than
\* KeyboardInterrupt logs nothing.
C6_LogOnlySettledTurns ==
    /\ logged <= 1
    /\ logged = 1 =>
          \/ outcome = "interrupted"
          \/ outcome = "completed" /\ tool_use(response) = <<>>
    /\ (pc \in {"raised", "crashed"} \/ outcome = "error") => logged = 0

\* C6 witness: a tool call failed after a reply had been committed, the
\* error has been handled by run(), nothing was logged.
C6_Witness ==
    /\ outcome = "error" /\ pc = "run_after"
    /\ response # NoMessage /\ logged = 0

\* no unanswered user message, no ToolUse without a ToolResult
Settled(ms) ==
    /\ NoDanglingToolUse(ms)
    /\ ms = <<>> \/ Last(ms).role = "assistant"

\* C7: once a non-interrupt error of generate or of a tool call has reached
\* the caller of the turn, the conversation holds no half-built message of
\* the failed turn.
C7_ErrorLeavesConversationSettled ==
    (outcome = "error" /\ pc \in {"run_after", "crashed"}) => Settled(messages)

\* every assistant message with tool requests in ms is followed by one
\* message holding exactly one ToolResult per request, in request order, and
\* that message is not followed by a second user message
ToolRoundsAnswered(ms) ==
    \A i \in 1..Len(ms) :
        (ms[i].role = "assistant" /\ tool_use(ms[i]) # <<>>) =>
            /\ i < Len(ms)
            /\ ms[i + 1].role = "user"
            /\ Len(ms[i + 1].content) = Len(tool_use(ms[i]))
            /\ \A j \in 1..Len(tool_use(ms[i])) :
                  /\ ms[i + 1].content[j].type = "ToolResult"
                  /\ ms[i + 1].content[j].id = tool_use(ms[i])[j].id
            /\ (i + 2 <= Len(ms)) => ms[i + 2].role = "assistant"

\* C8: when reply() requests a generation, every assistant reply with k >= 1
\* tool requests is followed by exactly one tool-result message holding k
\* ToolResults in request order; reply() completes normally only when the
\* most recent assistant reply holds no tool request.
C8_ToolRoundsBeforeGeneration ==
    /\ pc = "generate" => ToolRoundsAnswered(messages)
    /\ (pc = "log" /\ outcome = "completed") =>
          /\ ToolRoundsAnswered(messages)
          /\ Last(messages) = response
          /\ response.role = "assistant" /\ tool_use(response) = <<>>

\* C8 witness: a turn with a round of two tool requests completed normally.
C8_Witness ==
    /\ pc = "log" /\ outcome = "completed"
    /\ Len(messages) >= 3
    /\ Len(tool_use(messages[Len(messages) - 2])) = 2
    /\ messages[Len(messages) - 1].content[1] = ToolResult(tool_use(messages[Len(messages) - 2])[1].id, "output", FALSE)

(***************************************************************************)
(* The stream assembler of send_message (checked under RealtimeSpec)       *)
(***************************************************************************)
\* the fragments of a list, joined in order
RECURSIVE Flatten(_)
Flatten(fs) == IF fs = <<>> THEN <<>> ELSE Head(fs) \o Flatten(Tail(fs))

\* every call of cs holds the fragments received for it, joined in order
ArgumentsAsReceived(cs) ==
    /\ Len(cs) = Len(heard.calls)
    /\ \A k \in 1..Len(cs) : cs[k].arguments = Flatten(heard.calls[k])

\* C9: for every run of one or more argument delta events of one call closed
\* by a done event, the argument string of the completed tool call is the
\* concatenation of the fragments in arrival order, the opening fragment
\* included: nothing lost, duplicated or reordered.  It holds while the
\* request receives and in the response it returns.
C9_ArgumentsAreConcatenation ==
    /\ rpc = "recv" =>
          /\ ArgumentsAsReceived(tool_calls)
          /\ current_tool_call # NoToolCall => current_tool_call.arguments = Flatten(heard.open)
    /\ result.kind = "returned" => ArgumentsAsReceived(result.response.tool_calls)

\* C9 witness: a returned response whose call was assembled from two
\* different fragments.
C9_Witness ==
    /\ result.kind = "returned"
    /\ heard.calls = << << <<"{", "d">>, <<"}">> >> >>
    /\ Len(result.response.tool_calls) = 1
    /\ result.response.tool_calls[1].arguments = <<"{", "d", "}">>

\* C10: the text of the assistant message complete() returns is the
\* concatenation, in arrival order, of the text fragments received before
\* response.done; when no tool-call event was received the message holds no
\* ToolUse.
C10_MessageTextIsConcatenation ==
    (result.kind = "returned" /\ via = "complete") =>
        /\ MessageText(result.message.content) = Flatten(heard.text)
        /\ ~heard.tool =>
              \A k \in 1..Len(result.message.content) : result.message.content[k].type # "ToolUse"

\* C10 witness: complete() returned after two text fragments and no
\* tool-call event.
C10_Witness ==
    /\ result.kind = "returned" /\ via = "complete"
    /\ heard.text = << <<"h">>, <<"e", "l", "l", "o">> >>
    /\ ~heard.tool
    /\ result.message.content = <<RtText(<<"h", "e", "l", "l", "o">>)>>

(***************************************************************************)
(* The tool-call limit of RealtimeWebSocket (checked under LimitSpec)      *)
(***************************************************************************)
\* the step opens a tool call
OpensToolCall == current_tool_call = NoToolCall /\ current_tool_call' # NoToolCall

\* C11: a new RealtimeWebSocket has tool_call_count = 0, max_tool_calls = 10,
\* is_first_connection true and no stored tool result; in every reachable
\* state 0 <= tool_call_count <= max_tool_calls; a step raises tool_call_count
\* by exactly one when it opens a tool call and leaves it alone otherwise.
C11_ToolCallCountBounded ==
    /\ NewRealtimeWebSocket.tool_call_count = 0
    /\ NewRealtimeWebSocket.max_tool_calls = 10
    /\ NewRealtimeWebSocket.is_first_connection = TRUE
    /\ NewRealtimeWebSocket.current_tool_result = "None"
    /\ [](0 <= tool_call_count /\ tool_call_count <= max_tool_calls)
    /\ [][tool_call_count' = IF OpensToolCall THEN tool_call_count + 1 ELSE tool_call_count]_vars

\* C11 witness: the call that brings the count to the maximum has been opened.
C11_Witness ==
    /\ rpc = "recv"
    /\ current_tool_call # NoToolCall
    /\ tool_call_count = max_tool_calls

\* C12: the limit error is raised only by an event that opens a new tool
\* call; while a call is open no event can open one (a delta is appended, a
\* done closes the call, text and response.done open nothing), so no step
\* taken with a call open raises the limit error.
C12_LimitOnlyOnOpening ==
    [][(rpc = "recv" /\ current_tool_call # NoToolCall) => result'.error # LimitError]_vars

\* C13: right after send_message has raised the limit error no socket is
\* held and tool_call_count is 0.
C13_LimitRaiseResets ==
    (rpc = "idle" /\ result.kind = "raised" /\ result.error = LimitError) =>
        /\ ws = "None"
        /\ tool_call_count = 0

(***************************************************************************)
(* Cleanup of RealtimeWebSocket (checked under RealtimeSpec)               *)
(***************************************************************************)
\* C14: after send_message has raised, for whatever reason, no socket is
\* held, tool_call_count is 0, no tool call is in progress and the
\* first-connection flag has its initial value.
C14_RaiseCleansUp ==
    (rpc = "idle" /\ result.kind = "raised") =>
        /\ ws = "None"
        /\ tool_call_count = 0
        /\ current_tool_call = NoToolCall
        /\ is_first_connection = NewRealtimeWebSocket.is_first_connection

\* C15: close() is idempotent: a second close() changes nothing, and after
\* the first no socket is held, tool_call_count is 0 and no tool call is in
\* progress.
C15_CloseIdempotent ==
    [][Close =>
          /\ CloseWs(ws') = ws'
          /\ ws' = "None"
          /\ tool_call_count' = 0
          /\ current_tool_call' = NoToolCall]_vars

(***************************************************************************)
(* Tool calls within a request (checked under RealtimeSpec)                *)
(***************************************************************************)
\* complete() has returned from a request that received text and opened
\* exactly one tool call, named shell, whose arguments are a JSON object
OneShellCallTurn ==
    /\ rpc = "idle" /\ result.kind = "returned" /\ via = "complete"
    /\ heard.text # <<>>
    /\ Len(heard.calls) = 1 /\ heard.open = <<>>
    /\ JsonLoads(Flatten(heard.calls[1])).kind = "object"
    /\ Len(result.response.tool_calls) = 1
    /\ result.response.tool_calls[1].name = "shell"

\* C16: after a turn that opened one shell tool call with well-formed
\* arguments, completed it and received text, the returned message holds the
\* text and the call as a ToolUse that is no error, and tool_call_count is 1.
C16_OneToolRound ==
    OneShellCallTurn =>
        /\ result.message.content =
              <<RtText(Flatten(heard.text)),
                RtToolUse(result.response.tool_calls[1].id, "shell", FALSE, "None")>>
        /\ tool_call_count = 1

\* C17: after send_message has returned, no tool call is in progress and
\* tool_call_count is 0.
C17_ReturnLeavesNoCall ==
    (rpc = "idle" /\ result.kind = "returned") =>
        /\ current_tool_call = NoToolCall
        /\ tool_call_count = 0

\* C18: a done event handled while a call is open adds exactly one entry to
\* the request's tool calls and empties the in-progress slot, whatever the
\* arguments; no argument delta, done or text delta ends the receive loop.
C18_DoneClosesOpenCall ==
    [][/\ (RecvArgumentsDone /\ current_tool_call # NoToolCall) =>
             /\ Len(tool_calls') = Len(tool_calls) + 1
             /\ current_tool_call' = NoToolCall
       /\ (RecvTextDelta \/ RecvArgumentsDelta \/ RecvArgumentsDone) => rpc' = "recv"]_vars

\* C19: when a done event completes a shell call whose arguments are a JSON
\* object, whatever the command, a tool result is stored once the event
\* has been handled.
C19_DoneStoresResult ==
    [][(/\ RecvArgumentsDone
        /\ current_tool_call # NoToolCall
        /\ current_tool_call.name = "shell"
        /\ JsonLoads(current_tool_call.arguments).kind = "object")
       => current_tool_result' # "None"]_vars

\* the done event handled in this step runs the tool
RunsTool ==
    /\ RecvArgumentsDone
    /\ current_tool_call # NoToolCall
    /\ JsonLoads(current_tool_call.arguments).kind = "object"
    /\ JsonLoads(current_tool_call.arguments).command = "ls"

\* C20: the result of an executed tool call is sent as a conversation item
\* while its done event is handled, before any later event is received.
C20_ResultSentOnDone ==
    [][RunsTool =>
          /\ Len(sent') = Len(sent) + 1
          /\ \E o \in ToolOutputs :
                Last(sent') = Sent("conversation.item.create", "user", <<"Tool result:", o>>)]_vars

(***************************************************************************)
(* Events the assembler must cope with                                     *)
(***************************************************************************)
\* C21: when a done event arrives and the arguments of the open call are no
\* JSON, the call is still added to the request's tool calls with the
\* diagnostic attached, _response_to_message turns it into a ToolUse with
\* is_error true and an error message, and the request goes on.
C21_InvalidArgumentsStillEmitted ==
    [][(/\ RecvArgumentsDone
        /\ current_tool_call # NoToolCall
        /\ ~JsonLoads(current_tool_call.arguments).ok)
       => /\ rpc' = "recv"
          /\ Len(tool_calls') = Len(tool_calls) + 1
          /\ Last(tool_calls').arguments = current_tool_call.arguments
          /\ Last(tool_calls').error # "none"
          /\ ToolCallToToolUse(Last(tool_calls')).is_error
          /\ ToolCallToToolUse(Last(tool_calls')).error_message # "None"]_vars

\* the request has raised in this step
RaisedNow == rpc' = "idle" /\ result'.kind = "raised"

\* C22: out-of-order tool-call events end the turn with an error: an argument
\* delta that names another call than the open one is not merged into it,
\* and a done event with no call open is not passed over.
C22_OutOfOrderRejected ==
    [][/\ \A e \in ArgsDeltaEvents :
             (/\ RecvArgumentsDelta
              /\ ArgumentsDelta(e)
              /\ current_tool_call # NoToolCall
              /\ e.tool_call_id # "absent"
              /\ <<e.tool_call_id>> # current_tool_call.id)
             => RaisedNow
       /\ (RecvArgumentsDone /\ current_tool_call = NoToolCall) => RaisedNow]_vars

(***************************************************************************)
(* History replay                                                          *)
(***************************************************************************)
\* the step is a call of send_message
SendMessageCalled == rpc = "idle" /\ requests' = requests + 1

\* the stored tool result the call has to send first, if any
PendingResults == IF current_tool_result # "None" THEN 1 ELSE 0

\* C23: history items are sent only right after a new connection has been
\* opened, once each; a call on a connected socket sends no history item,
\* only the pending tool result, the message and response.create.
C23_HistoryOnlyOnNewConnection ==
    [][SendMessageCalled =>
          /\ ws = "connected" => Len(sent') <= PendingResults + 2
          /\ (ws # "connected" /\ rpc' = "recv") =>
                \E c \in Calls :
                   /\ ~c.history.none
                   /\ Len(sent') = Len(c.history.items) + PendingResults + 2
                   /\ \A k \in 1..Len(c.history.items) :
                         sent'[k] = Sent("conversation.item.create",
                                         c.history.items[k].role, <<c.history.items[k].text>>)]_vars

\* C23 witness: complete() has sent its second request on the socket the
\* first one opened: the message and response.create, nothing else.
C23_Witness ==
    /\ rpc = "recv" /\ via = "complete"
    /\ requests = 2
    /\ sock_timeout = "set"
    /\ Len(sent) = 2

(***************************************************************************)
(* Failures and termination of the receive loop                            *)
(***************************************************************************)
\* C24: a payload that is no JSON is not fatal: the receive loop goes on and
\* the connection stays open.  (The code treats such a payload and a receive
\* timeout alike, lines 136-137.)
C24_MalformedPayloadSkipped ==
    [][RecvTimeoutOrMalformed => (rpc' = "recv" /\ ws' = ws)]_vars

\* C25: when a receive times out before response.done, the request returns
\* the text and the tool calls accumulated so far.
C25_TimeoutReturnsPartial ==
    [][(RecvTimeoutOrMalformed \/ RecvDeadline) =>
          /\ rpc' = "idle"
          /\ result'.kind = "returned"
          /\ result'.response = Response(content_text, tool_calls)]_vars

\* the clock moves on: a request that stays in its receive loop comes to the
\* check of line 129 after start_time + timeout.  The socket is taken near
\* the limit, where the loop can be left in every way it has, the limit
\* error included.
TimedSpec == LimitInit /\ [][RealtimeNext]_vars /\ WF_vars(RecvDeadline)

\* C26: the receive loop always ends, by returning at response.done, by
\* raising, or on the timeout, however many events the remote streams.
C26_ReceiveLoopTerminates == (rpc = "recv") ~> (rpc = "idle")

\* C26 witness: the remote has streamed as many deltas as it can and the
\* loop is still receiving.
C26_Witness ==
    /\ rpc = "recv"
    /\ heard.n = MaxEvents
    /\ ~heard.done

\* C27: every receive happens on a socket whose timeout has been set.
C27_ReceiveHasTimeout == rpc = "recv" => sock_timeout = "set"

C29_ToolFailureContained ==
    [][(RecvArgumentsDone /\ current_tool_call # NoToolCall) =>
          /\ ~RaisedNow
          /\ ws' = ws]_vars

\* C30: tool output is cut to the budget of 1000 characters: no output
\* longer than that is stored as it is.
C30_OutputTruncated ==
    current_tool_result \in ToolOutputs => OutputChars(current_tool_result) <= 1000

(***************************************************************************)
(* Usage estimate of complete()                                            *)
(***************************************************************************)
\* C31: the usage complete() returns is a function of the length n of the
\* reply text: input and output tokens are max(1, n div 4) for a reply
\* with text and 1 for a reply without, the total is their sum, and all
\* three are at least 1.
C31_UsageFromTextLength ==
    (result.kind = "returned" /\ via = "complete") =>
        LET n == Len(MessageText(result.message.content))
            u == result.usage
            floor == IF n \div 4 >= 1 THEN n \div 4 ELSE 1
        IN  /\ n > 0 => u.input_tokens = floor /\ u.output_tokens = floor
            /\ n = 0 => u.input_tokens = 1 /\ u.output_tokens = 1
            /\ u.total_tokens = u.input_tokens + u.output_tokens
            /\ u.input_tokens >= 1 /\ u.output_tokens >= 1 /\ u.total_tokens >= 1

\* a reply of nine characters: two tokens each way
C31_Witness ==
    /\ result.kind = "returned" /\ via = "complete"
    /\ Len(MessageText(result.message.content)) = 9
    /\ result.usage = Usage(2, 2, 4)

(***************************************************************************)
(* Requests after earlier requests                                         *)
(***************************************************************************)
\* C32: a RealtimeWebSocket serves a new turn from every state it can be
\* in: when the remote answers a request with text deltas and response.done
\* only, the request returns the reply made of that text, whatever earlier
\* requests did (tool calls used, the limit error raised).  (Checked under
\* LimitSpec.)
C32_AlwaysServesNewTurn ==
    [][(RecvResponseDone /\ ~heard.tool) =>
          /\ result'.kind = "returned"
          /\ result'.response = Response(Flatten(heard.text), <<>>)]_vars

\* C33: a request that follows one ended by a KeyboardInterrupt in receive
\* does not run on the interrupted request's socket, on which the rest of
\* the interrupted response (at least its terminal event) is still unread:
\* it opens a new connection.
C33_InterruptedSocketNotReused ==
    [][(SendMessageSends /\ result.kind = "interrupted") => MustConnect]_vars

\* C34: when response.done ends a request successfully while a call opened
\* by an argument delta is still open, that call is in the tool-call list
\* of the returned response.
C34_OpenCallNotDiscarded ==
    [][(RecvResponseDone /\ result'.kind = "returned" /\ current_tool_call # NoToolCall) =>
          \E k \in 1..Len(result'.response.tool_calls) :
              /\ result'.response.tool_calls[k].id = current_tool_call.id
              /\ result'.response.tool_calls[k].arguments = current_tool_call.arguments]_vars

\* the done event handled in this step stores a tool result
ResultProduced ==
    /\ RecvArgumentsDone \/ RecvArgumentsDoneLate
    /\ ~LimitReached
    /\ current_tool_call # NoToolCall
    /\ JsonLoads(current_tool_call.arguments).kind = "object"
    /\ JsonLoads(current_tool_call.arguments).command = "ls"

\* C35: every tool result is transmitted exactly once: a result is stored
\* only when no earlier result is waiting to be sent, and a send_message
\* that has sent the stored result leaves none stored.  (Checked under
\* ToolChainSpec.)
C35_ResultSentExactlyOnce ==
    [][/\ ResultProduced => current_tool_result = "None"
       /\ (/\ SendMessageCalled
           /\ current_tool_result # "None"
           /\ \E k \in 1..Len(sent') : sent'[k].text = <<"Tool result:", current_tool_result>>)
          => current_tool_result' = "None"]_vars

(***************************************************************************)
(* What complete() and send_message hand the remote                        *)
(***************************************************************************)
\* no conversation item is sent twice (the conversations of the model hold
\* no two messages with the same text)
NoItemTwice(s) ==
    \A i, j \in 1..Len(s) :
        (i < j /\ s[i].type = "conversation.item.create") => s[i] # s[j]

\* C36: a call of complete() that reaches the receive loop has sent, as the
\* current user message, the text of the last message of the conversation,
\* and has sent no conversation message twice: that text is not among the
\* history items of the same call, also in a tool round whose last message
\* holds only tool results.
C36_EachMessageSentOnce ==
    [][(SendMessageSends /\ via' = "complete") =>
          \E ms \in Conversations :
              /\ sent' = SendPlan(LastUserText(ms), HistoryOf(ms))
              /\ LastUserText(ms) = TextOf(Last(ms))
              /\ NoItemTwice(sent')]_vars

\* C37: send_message called without history on a socket that is not
\* connected does not fail because history is absent.
C37_HistoryOptional ==
    [][(SendMessageCalled /\ via' = "send_message" /\ MustConnect) =>
          result'.error # "TypeError"]_vars

(***************************************************************************)
(* Resuming a session from its log                                         *)
(***************************************************************************)
\* the session file: what it held when the session started (nothing, or
\* the conversation resumed) and after it what reply() has logged
SessionFiles == { p \o Flatten(log) : p \in {<<>>, ResumedConversation} }

EveryMessageHasContent(ms) == \A k \in 1..Len(ms) : ms[k].content # <<>>

\* a conversation a user can continue: empty, or ending with an assistant
\* message whose last content is no tool request
Resumable(ms) ==
    \/ ms = <<>>
    \/ /\ Last(ms).role = "assistant"
       /\ Last(ms).content # <<>>
       /\ ~IsToolUse(Last(Last(ms).content))

\* C38: whatever reply() has logged (interrupted turns included), the
\* conversation that _get_initial_messages makes of the session file is
\* empty or ends with an assistant message whose last content is not a
\* ToolUse.  (Checked under Spec, for logs whose messages all have content.)
C38_LoadedLogIsResumable ==
    \A file \in SessionFiles :
        EveryMessageHasContent(file) =>
            /\ ~GetInitialMessages(file).raised
            /\ Resumable(GetInitialMessages(file).messages)

(***************************************************************************)
(* The developer toolkit (checked under ToolkitSpec)                       *)
(***************************************************************************)
\* C39: text_editor "create" on a path where no file exists creates the
\* file with exactly the given content and returns; on an existing file
\* that has not been viewed it raises and leaves the files unchanged.
C39_CreateWritesNewFile ==
    [][\A path \in FilePaths, file_text \in FileTexts :
          (TextEditorCreate /\ WriteFile(path, file_text)) =>
              /\ files[path] = "absent" =>
                    (files'[path] = file_text /\ tk_result'.kind = "returned")
              /\ (files[path] # "absent" /\ ~IsActive(path)) =>
                    (tk_result'.kind = "raised" /\ files' = files)]_vars

\* p is d or lies below it
InSubtree(d, p) == Len(p) >= Len(d) /\ SubSeq(p, 1, Len(d)) = d

\* C40: after any sequence of change_dir calls the working directory is
\* the start directory or a directory of its subtree.
C40_CwdInsideStart == InSubtree(StartDir, cwd)

====
